---- MODULE Spec2Model ----
\* Model of Transcribe-Wizard (src/main.rs): the clipboard resolver
\* clipboard_str, the OCR extractor image_to_str and the two buttons of the
\* driver loop in main.
\*
\* A Rust String is modelled as the sequence of its UTF-8 bytes, so that
\* String::len is the byte length, as in Rust.  A recognized line (ocrs
\* TextLine) is the sequence of its characters (Unicode code points), and
\* line.to_string() encodes it.
EXTENDS Integers, Sequences, FiniteSets, TLC

\* ------------------------------------------------------------------ bounds
\* largest number of words the detection stage returns
MaxWords == 2

\* ------------------------------------------------------- strings and lines
\* char::encode_utf8, as used by the Display of a line
Utf8Encode(cp) ==
  IF cp < 128 THEN << cp >>
  ELSE IF cp < 2048 THEN << 192 + (cp \div 64), 128 + (cp % 64) >>
  ELSE << 224 + (cp \div 4096), 128 + ((cp \div 64) % 64), 128 + (cp % 64) >>

RECURSIVE to_string(_)
\* line.to_string(): the UTF-8 String of the characters of the line
to_string(line) ==
  IF line = << >> THEN << >>
  ELSE Utf8Encode(Head(line)) \o to_string(Tail(line))

\* the characters of the lines the recognition stage may return
Hello == << 72, 101, 108, 108, 111 >>
World == << 87, 111, 114, 108, 100 >>
LetterA == << 97 >>
EAcute == << 233 >>
LineTexts == { Hello, World, LetterA, EAcute }

\* Option<TextLine>
None == [some |-> FALSE, line |-> << >>]
Some(l) == [some |-> TRUE, line |-> l]
OptLines == { None } \cup { Some(l) : l \in LineTexts }

\* the Display texts of the errors the clipboard and OCR libraries return
Diags == { << 101, 49 >>, << 101, 50 >> }

\* the texts another program may put on the clipboard: "Copied!" and "a"
ClipTexts == { << 67, 111, 112, 105, 101, 100, 33 >>, << 97 >> }

\* format string of the text-retrieval failure: "Failed to get text from clipboard: "
FailedGetText ==
  << 70, 97, 105, 108, 101, 100, 32, 116, 111, 32, 103, 101, 116, 32, 116,
     101, 120, 116, 32, 102, 114, 111, 109, 32, 99, 108, 105, 112, 98, 111,
     97, 114, 100, 58, 32 >>
\* format string of the image-retrieval failure: "Failed to get image from clipboard: "
FailedGetImage ==
  << 70, 97, 105, 108, 101, 100, 32, 116, 111, 32, 103, 101, 116, 32, 105,
     109, 97, 103, 101, 32, 102, 114, 111, 109, 32, 99, 108, 105, 112, 98,
     111, 97, 114, 100, 58, 32 >>
\* format string of the image-decode failure: "Failed to convert image data to dynamic image: "
FailedConvert ==
  << 70, 97, 105, 108, 101, 100, 32, 116, 111, 32, 99, 111, 110, 118, 101,
     114, 116, 32, 105, 109, 97, 103, 101, 32, 100, 97, 116, 97, 32, 116,
     111, 32, 100, 121, 110, 97, 109, 105, 99, 32, 105, 109, 97, 103, 101,
     58, 32 >>
\* format string of the OCR failure: "Failed to extract text from image: "
FailedExtract ==
  << 70, 97, 105, 108, 101, 100, 32, 116, 111, 32, 101, 120, 116, 114, 97,
     99, 116, 32, 116, 101, 120, 116, 32, 102, 114, 111, 109, 32, 105, 109,
     97, 103, 101, 58, 32 >>
\* message of the no-usable-content failure: "Unhandled clipboard content: neither text nor image"
Unhandled ==
  << 85, 110, 104, 97, 110, 100, 108, 101, 100, 32, 99, 108, 105, 112, 98,
     111, 97, 114, 100, 32, 99, 111, 110, 116, 101, 110, 116, 58, 32, 110,
     101, 105, 116, 104, 101, 114, 32, 116, 101, 120, 116, 32, 110, 111,
     114, 32, 105, 109, 97, 103, 101 >>
\* format string the driver shows when clipboard_str fails: "Error getting text from clipboard: "
ErrorGetting ==
  << 69, 114, 114, 111, 114, 32, 103, 101, 116, 116, 105, 110, 103, 32,
     116, 101, 120, 116, 32, 102, 114, 111, 109, 32, 99, 108, 105, 112, 98,
     111, 97, 114, 100, 58, 32 >>
\* format string the driver shows when set_text fails: "Error setting text to clipboard: "
ErrorSetting ==
  << 69, 114, 114, 111, 114, 32, 115, 101, 116, 116, 105, 110, 103, 32,
     116, 101, 120, 116, 32, 116, 111, 32, 99, 108, 105, 112, 98, 111, 97,
     114, 100, 58, 32 >>

\* format! that leaves the argument out
format_drop(prefix, err) == prefix

\* format!("<prefix>{}", err)
format(prefix, err) == prefix \o err

\* ----------------------------------------------------------------- results
Ok(v) == [tag |-> "Ok", val |-> v]
Err(e) == [tag |-> "Err", val |-> e]
NoResult == [tag |-> "NotCalled", val |-> << >>]

\* one call of a library function, with whether it succeeded (for has():
\* what it answered)
Call(op, ok) == [op |-> op, ok |-> ok]

\* the library calls that return a Result
FallibleOps ==
  { "get_text", "get_image", "get_dynamic_image", "from_bytes",
    "prepare_input", "detect_words", "recognize_text" }

\* what the OCR engine finds in an image of w detected words: the words are
\* grouped into at least one and at most w lines, and recognition returns
\* one Option<TextLine> per line
LinesOf(w) ==
  UNION { { [words |-> w, texts |-> t] : t \in [1..n -> OptLines] } :
          n \in (IF w = 0 THEN {0} ELSE 1..w) }

OcrOutcomes == UNION { LinesOf(w) : w \in 0..MaxWords }

\* the calls between the clipboard and the recognized lines
ImageOps == FallibleOps \ { "get_text" }

\* an image in which nothing was looked for
Blank == [words |-> 0, texts |-> << >>]

\* what the libraries do during one run of a handler: the calls that fail,
\* the diagnostic they fail with, and what the OCR engine finds (which is
\* something only in an image that every call on the way accepted)
Oracles ==
  UNION { { [fails |-> f, diag |-> d, ocr |-> r] :
              d \in (IF f = {} THEN { CHOOSE e \in Diags : TRUE } ELSE Diags),
              r \in (IF f \cap ImageOps = {} THEN OcrOutcomes ELSE { Blank }) } :
          f \in SUBSET FallibleOps }

\* ------------------------------------------------------------ image_to_str
RECURSIVE flatten(_)
\* .into_iter().flatten(): the present lines, in order
flatten(opts) ==
  IF opts = << >> THEN << >>
  ELSE IF Head(opts).some THEN << Head(opts).line >> \o flatten(Tail(opts))
  ELSE flatten(Tail(opts))

\* the closure of .filter(): String::len is the length in bytes
keep(line) == Len(to_string(line)) > 1

RECURSIVE filter(_)
\* .filter(|line| line.to_string().len() > 1)
filter(lines) ==
  IF lines = << >> THEN << >>
  ELSE IF keep(Head(lines)) THEN << Head(lines) >> \o filter(Tail(lines))
  ELSE filter(Tail(lines))

\* .map(|line| line.to_string()).collect::<Vec<String>>()
collect(lines) == [i \in 1..Len(lines) |-> to_string(lines[i])]

RECURSIVE join_trailing(_, _)
\* a join that puts the separator after every string
join_trailing(strs, sep) ==
  IF strs = << >> THEN << >>
  ELSE strs[1] \o sep \o join_trailing(Tail(strs), sep)

RECURSIVE join(_, _)
\* [String]::join(sep)
join(strs, sep) ==
  IF strs = << >> THEN << >>
  ELSE IF Len(strs) = 1 THEN strs[1]
  ELSE strs[1] \o sep \o join(Tail(strs), sep)

\* " "
Space == << 32 >>

\* the expression in Ok(...) of image_to_str
assemble(line_texts) == join(collect(filter(flatten(line_texts))), Space)

\* the state of image_to_str after the stages it ran
Stage(res, calls, words, texts) ==
  [res |-> res, calls |-> calls, word_rects |-> words, line_texts |-> texts]

\* a library call followed by `?`
try(o, op) == op \notin o.fails

\* image_to_str without the `?` after detect_words
image_to_str_continue(o) ==
  LET c1 == << Call("to_rgb8", TRUE) >>
      c2 == Append(c1, Call("from_bytes", try(o, "from_bytes")))
      c3 == Append(c2, Call("prepare_input", try(o, "prepare_input")))
      c4 == Append(c3, Call("detect_words", try(o, "detect_words")))
      c5 == Append(c4, Call("find_text_lines", TRUE))
      c6 == Append(c5, Call("recognize_text", try(o, "recognize_text")))
  IN  IF ~try(o, "from_bytes") THEN Stage(Err(o.diag), c2, 0, << >>)
      ELSE IF ~try(o, "prepare_input") THEN Stage(Err(o.diag), c3, 0, << >>)
      ELSE IF ~try(o, "recognize_text")
        THEN Stage(Err(o.diag), c6, o.ocr.words, << >>)
      ELSE Stage(Ok(assemble(o.ocr.texts)), c6, o.ocr.words, o.ocr.texts)

image_to_str(o) ==
  LET c1 == << Call("to_rgb8", TRUE) >>
      c2 == Append(c1, Call("from_bytes", try(o, "from_bytes")))
      c3 == Append(c2, Call("prepare_input", try(o, "prepare_input")))
      c4 == Append(c3, Call("detect_words", try(o, "detect_words")))
      c5 == Append(c4, Call("find_text_lines", TRUE))
      c6 == Append(c5, Call("recognize_text", try(o, "recognize_text")))
  IN  IF ~try(o, "from_bytes") THEN Stage(Err(o.diag), c2, 0, << >>)
      ELSE IF ~try(o, "prepare_input") THEN Stage(Err(o.diag), c3, 0, << >>)
      ELSE IF ~try(o, "detect_words") THEN Stage(Err(o.diag), c4, 0, << >>)
      ELSE IF ~try(o, "recognize_text")
        THEN Stage(Err(o.diag), c6, o.ocr.words, << >>)
      ELSE Stage(Ok(assemble(o.ocr.texts)), c6, o.ocr.words, o.ocr.texts)

\* ----------------------------------------------------------- clipboard_str
\* what one call of clipboard_str did: its result, the library calls it
\* made, and the result and values of image_to_str when it was called
Resolved(res, calls, extracted, words, texts) ==
  [res |-> res, calls |-> calls, extracted |-> extracted,
   word_rects |-> words, line_texts |-> texts]

\* the arm of `if clipboard_context.has(ContentFormat::Image)`
image_branch(cb, o, calls) ==
  LET g == Append(calls, Call("get_image", try(o, "get_image")))
      d == Append(g, Call("get_dynamic_image", try(o, "get_dynamic_image")))
      x == image_to_str(o)
  IN  IF ~try(o, "get_image")
        THEN Resolved(Err(format(FailedGetImage, o.diag)), g, NoResult, 0, << >>)
      ELSE IF ~try(o, "get_dynamic_image")
        THEN Resolved(Err(format(FailedConvert, o.diag)), d, NoResult, 0, << >>)
      ELSE Resolved(IF x.res.tag = "Ok" THEN Ok(x.res.val)
                    ELSE Err(format(FailedExtract, x.res.val)),
                    d \o x.calls, x.res, x.word_rects, x.line_texts)

\* a clipboard_str that ends with an empty text
neither_ok(cb, o, calls) == Resolved(Ok(<< >>), calls, NoResult, 0, << >>)

\* the final Err of clipboard_str
neither(cb, o, calls) == Resolved(Err(Unhandled), calls, NoResult, 0, << >>)

\* a text arm that goes on to the image when get_text fails
text_branch_fallthrough(cb, o, calls) ==
  LET g == Append(calls, Call("get_text", try(o, "get_text")))
      h == Append(g, Call("has_image", cb.hasImage))
  IN  IF try(o, "get_text") THEN Resolved(Ok(cb.text), g, NoResult, 0, << >>)
      ELSE IF cb.hasImage THEN image_branch(cb, o, h)
      ELSE neither(cb, o, h)

\* the arm of `if clipboard_context.has(ContentFormat::Text)`
text_branch(cb, o, calls) ==
  IF try(o, "get_text")
    THEN Resolved(Ok(cb.text), Append(calls, Call("get_text", TRUE)),
                  NoResult, 0, << >>)
    ELSE Resolved(Err(format(FailedGetText, o.diag)),
                  Append(calls, Call("get_text", FALSE)), NoResult, 0, << >>)

\* a clipboard_str that looks for an image first
clipboard_str_image_first(cb, o) ==
  LET h1 == << Call("has_image", cb.hasImage) >>
      h2 == Append(h1, Call("has_text", cb.hasText))
  IN  IF cb.hasImage THEN image_branch(cb, o, h1)
      ELSE IF cb.hasText THEN text_branch(cb, o, h2)
      ELSE neither(cb, o, h2)

clipboard_str(cb, o) ==
  LET h1 == << Call("has_text", cb.hasText) >>
      h2 == Append(h1, Call("has_image", cb.hasImage))
  IN  IF cb.hasText THEN text_branch(cb, o, h1)
      ELSE IF cb.hasImage THEN image_branch(cb, o, h2)
      ELSE neither(cb, o, h2)

\* ------------------------------------------------------------------- state
VARIABLES
  clipboard,   \* the system clipboard: which formats it offers and its text
  text,        \* main's `text`, the string the window shows
  running,     \* the main loop has not met a Quit event
  lastAction,  \* what the last step was: a button, Quit, another program
  calls,       \* the library calls of the last button handler, in order
  result,      \* the value clipboard_str returned in the last handler
  extracted,   \* the value image_to_str returned in the last handler
  word_rects,  \* the number of words detect_words returned
  line_texts   \* the lines recognize_text returned

vars ==
  << clipboard, text, running, lastAction, calls, result, extracted,
     word_rects, line_texts >>

Clip(t, i, s) == [hasText |-> t, hasImage |-> i, text |-> s]

\* the clipboard another program leaves: any of the two formats
Clipboards ==
  { Clip(FALSE, i, << >>) : i \in BOOLEAN }
    \cup { Clip(TRUE, i, s) : i \in BOOLEAN, s \in ClipTexts }

\* `let mut text = String::new()` with whatever is on the clipboard
Init ==
  /\ clipboard \in Clipboards
  /\ text = << >>
  /\ running = TRUE
  /\ lastAction = "start"
  /\ calls = << >>
  /\ result = NoResult
  /\ extracted = NoResult
  /\ word_rects = 0
  /\ line_texts = << >>

\* a match that shows the bare cause
shown_bare(res) == res.val

\* the match of the "Get clipboard" button
shown(res) ==
  IF res.tag = "Ok" THEN res.val ELSE format(ErrorGetting, res.val)

\* if ui.button("Get clipboard")
GetClipboard ==
  /\ running
  /\ \E o \in Oracles :
       LET r == clipboard_str(clipboard, o) IN
         /\ text' = shown(r.res)
         /\ calls' = << Call("clipboard_str", r.res.tag = "Ok") >> \o r.calls
         /\ result' = r.res
         /\ extracted' = r.extracted
         /\ word_rects' = r.word_rects
         /\ line_texts' = r.line_texts
  /\ lastAction' = "get"
  /\ UNCHANGED << clipboard, running >>

\* what set_text leaves on the clipboard: the text alone when it succeeds,
\* the old content when it fails
set_text(cb, s, ok) == IF ok THEN Clip(TRUE, FALSE, s) ELSE cb

\* a match that clears the text after a successful copy
copied_clear(old, ok, diag) == IF ok THEN << >> ELSE format(ErrorSetting, diag)

\* the match of the "Copy" button
copied(old, ok, diag) == IF ok THEN old ELSE format(ErrorSetting, diag)

\* if ui.button("Copy")
Copy ==
  /\ running
  /\ \E ok \in BOOLEAN, d \in Diags :
       /\ clipboard' = set_text(clipboard, text, ok)
       /\ text' = copied(text, ok, d)
       /\ calls' = << Call("set_text", ok) >>
  /\ lastAction' = "copy"
  /\ result' = NoResult
  /\ extracted' = NoResult
  /\ word_rects' = 0
  /\ line_texts' = << >>
  /\ UNCHANGED running

\* Event::Quit: break 'main
Quit ==
  /\ running
  /\ running' = FALSE
  /\ lastAction' = "quit"
  /\ UNCHANGED << clipboard, text, calls, result, extracted, word_rects,
                  line_texts >>

\* another program replaces the content of the clipboard
OtherProgram ==
  /\ running
  /\ clipboard' \in Clipboards
  /\ clipboard' # clipboard
  /\ lastAction' = "other"
  /\ UNCHANGED << text, running, calls, result, extracted, word_rects,
                  line_texts >>

Next == GetClipboard \/ Copy \/ Quit \/ OtherProgram

Spec == Init /\ [][Next]_vars

\* ------------------------------------------------------------ properties
\* the ops of the calls of the last handler
Ops == { calls[i].op : i \in 1..Len(calls) }

\* the calls that failed in the last handler
Failed == { calls[i].op : i \in { j \in 1..Len(calls) : ~calls[j].ok } }
             \ { "has_text", "has_image", "clipboard_str" }

\* the calls that fetch or decode an image or run a stage of the OCR
StageOrder ==
  << "to_rgb8", "from_bytes", "prepare_input", "detect_words",
     "find_text_lines", "recognize_text" >>
StageOps == { StageOrder[i] : i \in 1..Len(StageOrder) }
ImageCalls == { "get_image", "get_dynamic_image" } \cup StageOps

HasPrefix(s, p) == Len(s) >= Len(p) /\ SubSeq(s, 1, Len(p)) = p

\* the number of characters of a recognized line
CharCount(line) == Len(line)

\* the last handler was "Get clipboard"
Got == lastAction = "get"

\* C1: when the clipboard offers text, clipboard_str asks for the text right
\* after the format check, and when get_text succeeds it returns exactly the
\* clipboard's text, whether or not an image is offered too, having called
\* neither get_image, the decoder nor any OCR stage.
C1_TextPriority ==
  (Got /\ clipboard.hasText) =>
    /\ Len(calls) >= 3
    /\ calls[3].op = "get_text"
    /\ calls[3].ok =>
         /\ result = Ok(clipboard.text)
         /\ Ops \cap ImageCalls = {}
         /\ extracted = NoResult

C1_Witness ==
  /\ Got
  /\ clipboard.hasText /\ clipboard.hasImage
  /\ clipboard.text \in ClipTexts /\ Len(clipboard.text) > 1
  /\ result = Ok(clipboard.text)
  /\ Call("get_text", TRUE) \in { calls[i] : i \in 1..Len(calls) }

\* C2: when the clipboard offers neither text nor an image, clipboard_str
\* fails with the "Unhandled clipboard content" error after the two format
\* checks alone: no get_text, no get_image, no OCR stage.
C2_NeitherFormat ==
  (Got /\ ~clipboard.hasText /\ ~clipboard.hasImage) =>
    /\ result = Err(Unhandled)
    /\ calls = << Call("clipboard_str", FALSE), Call("has_text", FALSE),
                  Call("has_image", FALSE) >>
    /\ extracted = NoResult

C2_Witness ==
  /\ Got
  /\ ~clipboard.hasText /\ ~clipboard.hasImage
  /\ result = Err(Unhandled)
  /\ text = ErrorGetting \o Unhandled

\* C3 as stated: when the text is offered but get_text fails, clipboard_str
\* goes on to check the image format, and a failure of both retrievals ends
\* in the "Unhandled clipboard content" error.
C3_FallsThroughToImage ==
  (Got /\ clipboard.hasText /\ "get_text" \in Failed) =>
    /\ "has_image" \in Ops
    /\ (clipboard.hasImage => "get_image" \in Ops)
    /\ ("get_image" \in Failed \/ ~clipboard.hasImage) => result = Err(Unhandled)

\* C3 amended: when the text is offered but get_text fails, clipboard_str
\* stops there: it returns the text-retrieval failure with the diagnostic,
\* without checking the image format or calling get_image; the "Unhandled
\* clipboard content" error is returned only when neither format is offered.
C3_StopsAtTextFailure ==
  /\ (Got /\ clipboard.hasText /\ "get_text" \in Failed) =>
       /\ \E d \in Diags : result = Err(FailedGetText \o d)
       /\ calls = << Call("clipboard_str", FALSE), Call("has_text", TRUE),
                     Call("get_text", FALSE) >>
  /\ (Got /\ result = Err(Unhandled)) =>
       (~clipboard.hasText /\ ~clipboard.hasImage)

C3_Witness ==
  /\ Got
  /\ clipboard.hasText /\ clipboard.hasImage
  /\ "get_text" \in Failed
  /\ result.tag = "Err"
  /\ HasPrefix(result.val, FailedGetText)

\* the recognized lines that are present and longer than one character
RECURSIVE LongLines(_)
LongLines(opts) ==
  IF opts = << >> THEN << >>
  ELSE IF Head(opts).some /\ CharCount(Head(opts).line) > 1
    THEN << to_string(Head(opts).line) >> \o LongLines(Tail(opts))
  ELSE LongLines(Tail(opts))

\* strs laid out one after the other with one space between two of them
Spaced(out, strs) ==
  LET n == Len(strs)
      RECURSIVE Start(_)
      Start(k) == IF k = 1 THEN 0 ELSE Start(k - 1) + Len(strs[k - 1]) + 1
  IN  IF n = 0 THEN out = << >>
      ELSE /\ Len(out) = Start(n) + Len(strs[n])
           /\ \A k \in 1..n :
                SubSeq(out, Start(k) + 1, Start(k) + Len(strs[k])) = strs[k]
           /\ \A k \in 2..n : out[Start(k)] = 32

\* C4: the text image_to_str assembles is made of exactly the present lines
\* of more than one character: a line of one character or none, a single
\* non-ASCII character included, is left out ("Hello", "a" gives "Hello").
C4_DropsSingleCharacters ==
  (Got /\ extracted.tag = "Ok") => Spaced(extracted.val, LongLines(line_texts))

\* the lines that pass the filter of image_to_str, as Strings
Survivors ==
  LET sv == SelectSeq(line_texts, LAMBDA e : e.some /\ keep(e.line))
  IN  [i \in 1..Len(sv) |-> to_string(sv[i].line)]

\* C5: the text image_to_str assembles is the texts of the lines that pass
\* the filter, in the order recognize_text returned them, with exactly one
\* space between two of them and none before the first or after the last;
\* absent lines are skipped.
C5_OrderPreserved ==
  (Got /\ extracted.tag = "Ok") => Spaced(extracted.val, Survivors)

C5_Witness ==
  /\ Got
  /\ line_texts = << Some(Hello), Some(World) >>
  /\ extracted = Ok(to_string(Hello) \o Space \o to_string(World))
  /\ text = extracted.val

\* C6: when every stage succeeds and either no word is detected or every
\* recognized line is absent or at most one character long, image_to_str and
\* clipboard_str both succeed with the empty string.
C6_EmptyIsSuccess ==
  (/\ Got
   /\ Ops \cap StageOps = StageOps
   /\ Failed = {}
   /\ \/ word_rects = 0
      \/ \A i \in 1..Len(line_texts) :
           ~line_texts[i].some \/ CharCount(line_texts[i].line) <= 1) =>
    /\ extracted = Ok(<< >>)
    /\ result = Ok(<< >>)
    /\ text = << >>

\* the calls of the OCR stages in the last handler, in order
StageCalls == SelectSeq(calls, LAMBDA c : c.op \in StageOps)

\* C7: the stages of image_to_str run in the order normalize (to_rgb8,
\* from_bytes), prepare_input, detect_words, find_text_lines, recognize_text,
\* each only after the one before succeeded; the first failure is the last
\* call, and image_to_str then returns the diagnostic as an error and no
\* text; it returns a text only after all the stages succeeded.
C7_StagesInOrder ==
  (Got /\ extracted # NoResult) =>
    LET n == Len(StageCalls) IN
      /\ n >= 1 /\ n <= Len(StageOrder)
      /\ \A i \in 1..n : StageCalls[i].op = StageOrder[i]
      /\ \A i \in 1..(n - 1) : StageCalls[i].ok
      /\ extracted.tag \in { "Ok", "Err" }
      /\ extracted.tag = "Ok" <=> (n = Len(StageOrder) /\ StageCalls[n].ok)
      /\ extracted.tag = "Err" =>
           /\ extracted.val \in Diags
           /\ result.tag = "Err"
           /\ line_texts = << >>

C7_Witness ==
  /\ Got
  /\ extracted.tag = "Err"
  /\ Len(StageCalls) = 4
  /\ StageCalls[4] = Call("detect_words", FALSE)

\* the kinds of failure a message of clipboard_str can be read as
Kinds(msg) ==
  { k \in { "text", "image", "convert", "extract", "unhandled" } :
      \/ k = "text" /\ \E d \in Diags : msg = FailedGetText \o d
      \/ k = "image" /\ \E d \in Diags : msg = FailedGetImage \o d
      \/ k = "convert" /\ \E d \in Diags : msg = FailedConvert \o d
      \/ k = "extract" /\ \E d \in Diags : msg = FailedExtract \o d
      \/ k = "unhandled" /\ msg = Unhandled }

\* the kind of failure the calls of the last handler ended with
Cause ==
  IF "get_text" \in Failed THEN "text"
  ELSE IF "get_image" \in Failed THEN "image"
  ELSE IF "get_dynamic_image" \in Failed THEN "convert"
  ELSE IF Failed \cap StageOps # {} THEN "extract"
  ELSE "unhandled"

\* C8: a failure of clipboard_str reads as exactly one of text-retrieval,
\* image-retrieval, image-decode, extraction and unhandled-content failure,
\* the one that happened, and ends with the diagnostic of the failed call; a
\* failure of image_to_str comes back as the extraction failure around the
\* diagnostic image_to_str returned.
C8_FailuresDistinguished ==
  (Got /\ result.tag = "Err") =>
    /\ Kinds(result.val) = { Cause }
    /\ extracted.tag = "Err" <=> Cause = "extract"
    /\ extracted.tag = "Err" => result.val = FailedExtract \o extracted.val

C8_Witness ==
  /\ Got
  /\ calls[Len(calls)] = Call("detect_words", FALSE)
  /\ "get_dynamic_image" \in Ops \ Failed
  /\ extracted.tag = "Err"
  /\ result = Err(FailedExtract \o extracted.val)

\* C9: after "Get clipboard" the loop is still running; clipboard_str was
\* called once; the window shows the resolved text when it succeeded and
\* "Error getting text from clipboard: " followed by the cause when it
\* failed; and while no Quit event came both buttons can be pressed.
C9_FailureIsDisplayed ==
  /\ Got =>
       /\ running
       /\ Cardinality({ i \in 1..Len(calls) : calls[i].op = "clipboard_str" }) = 1
       /\ result.tag \in { "Ok", "Err" }
       /\ result.tag = "Ok" => text = result.val
       /\ result.tag = "Err" => text = ErrorGetting \o result.val
  /\ running => (ENABLED GetClipboard /\ ENABLED Copy)

C9_Witness ==
  /\ Got
  /\ running
  /\ result = Err(Unhandled)
  /\ text = ErrorGetting \o Unhandled
  /\ clipboard.text = << >>

====
